---- MODULE Spec2Model ----
(***************************************************************************)
(* Checkout outcome probability analysis (checkout-analytics.py).          *)
(*                                                                         *)
(* The program computes probabilities with Python floats.  The model       *)
(* computes the same expressions over exact non-negative rationals, so a   *)
(* statement "sums to 1" is the exact identity that the floating-point     *)
(* result approximates up to rounding.  TLC integers are 32 bits wide and  *)
(* the products of three retry rounds exceed that, so numerators and       *)
(* denominators are naturals of arbitrary size, kept as little-endian      *)
(* sequences of limbs.                                                     *)
(***************************************************************************)
EXTENDS Integers, Sequences

(***************************************************************************)
(* Bounds of the explored input space.                                     *)
(***************************************************************************)
MaxS == 40
MaxRetries == 4

(***************************************************************************)
(* Arbitrary-size naturals: <<>> is 0, no most-significant zero limb.      *)
(***************************************************************************)
Base == 10 ^ 4

RECURSIVE ToBig(_)
ToBig(n) == IF n <= 0 THEN <<>> ELSE <<n % Base>> \o ToBig(n \div Base)

RECURSIVE AddC(_, _, _)
AddC(a, b, carry) ==
    IF a = <<>> /\ b = <<>>
    THEN ToBig(carry)
    ELSE LET x == IF a = <<>> THEN 0 ELSE Head(a)
             y == IF b = <<>> THEN 0 ELSE Head(b)
             t == x + y + carry
         IN  <<t % Base>> \o AddC(IF a = <<>> THEN a ELSE Tail(a),
                                   IF b = <<>> THEN b ELSE Tail(b),
                                   t \div Base)

BigAdd(a, b) == AddC(a, b, 0)

RECURSIVE MulSmallC(_, _, _)
MulSmallC(a, m, carry) ==
    IF a = <<>>
    THEN ToBig(carry)
    ELSE LET t == Head(a) * m + carry
         IN  <<t % Base>> \o MulSmallC(Tail(a), m, t \div Base)

BigMulSmall(a, m) == IF m = 0 THEN <<>> ELSE MulSmallC(a, m, 0)

RECURSIVE BigMul(_, _)
BigMul(a, b) ==
    IF a = <<>> \/ b = <<>>
    THEN <<>>
    ELSE LET rest == BigMul(Tail(a), b)
         IN  BigAdd(BigMulSmall(b, Head(a)),
                    IF rest = <<>> THEN <<>> ELSE <<0>> \o rest)

RECURSIVE LessFrom(_, _, _)
LessFrom(a, b, i) ==
    IF i = 0 THEN FALSE
    ELSE IF a[i] # b[i] THEN a[i] < b[i]
    ELSE LessFrom(a, b, i - 1)

BigLess(a, b) ==
    IF Len(a) # Len(b) THEN Len(a) < Len(b) ELSE LessFrom(a, b, Len(a))

RECURSIVE ModFrom(_, _, _, _)
ModFrom(a, m, i, r) ==
    IF i = 0 THEN r ELSE ModFrom(a, m, i - 1, (r * Base + a[i]) % m)

BigModSmall(a, m) == ModFrom(a, m, Len(a), 0)

RECURSIVE Strip(_)
Strip(a) ==
    IF a = <<>> THEN a
    ELSE IF a[Len(a)] = 0 THEN Strip(SubSeq(a, 1, Len(a) - 1))
    ELSE a

\* Quotient limbs are produced from the most significant limb down, so the
\* remainder is threaded from limb i to limb i - 1.
RECURSIVE DivDown(_, _, _, _)
DivDown(a, m, i, r) ==
    IF i = 0 THEN <<>>
    ELSE LET t == r * Base + a[i]
         IN  DivDown(a, m, i - 1, t % m) \o <<t \div m>>

BigDivSmall(a, m) == Strip(DivDown(a, m, Len(a), 0))

(***************************************************************************)
(* Non-negative rationals [n, d] standing for the program's floats.        *)
(* Reduce cancels the small prime factors the two parts share; it keeps    *)
(* the numbers short and never changes the value.                          *)
(***************************************************************************)
SmallPrimes == <<2, 3, 5, 7, 11, 13, 17, 19, 23, 29, 31, 37, 41, 43, 47,
                 53, 59, 61, 67, 71, 73, 79, 83, 89, 97>>

RECURSIVE ReduceBy(_, _)
ReduceBy(r, ps) ==
    IF ps = <<>> THEN r
    ELSE LET p == Head(ps)
         IN  IF BigModSmall(r.n, p) = 0 /\ BigModSmall(r.d, p) = 0
             THEN ReduceBy([n |-> BigDivSmall(r.n, p), d |-> BigDivSmall(r.d, p)], ps)
             ELSE ReduceBy(r, Tail(ps))

Reduce(r) == IF r.n = <<>> THEN [n |-> <<>>, d |-> <<1>>] ELSE ReduceBy(r, SmallPrimes)

Rat(a, b) == Reduce([n |-> ToBig(a), d |-> ToBig(b)])

Zero == Rat(0, 1)
One == Rat(1, 1)

RAdd(x, y) ==
    Reduce([n |-> BigAdd(BigMul(x.n, y.d), BigMul(y.n, x.d)), d |-> BigMul(x.d, y.d)])

RMul(x, y) == Reduce([n |-> BigMul(x.n, y.n), d |-> BigMul(x.d, y.d)])

REq(x, y) == BigMul(x.n, y.d) = BigMul(y.n, x.d)

RLess(x, y) == BigLess(BigMul(x.n, y.d), BigMul(y.n, x.d))

RLeq(x, y) == ~RLess(y, x)

(***************************************************************************)
(* The program's functions.                                                *)
(***************************************************************************)
Max(a, b) == IF a >= b THEN a ELSE b

\* The four base weights for s prior same-parameter records.
base_weights_typo(s) ==
    [immediate |-> 64 - s * 10, deferred |-> 20 + s * 5,
     retry |-> 10 + s * 5, fraud |-> 0 + s * 15]

base_weights_sign(s) ==
    [immediate |-> 65 + s * 10, deferred |-> 20 + s * 5,
     retry |-> 10 + s * 5, fraud |-> 0 + s * 15]

base_weights(s) ==
    [immediate |-> 65 - s * 10, deferred |-> 20 + s * 5,
     retry |-> 10 + s * 5, fraud |-> 0 + s * 15]

\* The three amount tiers; each is an if of its own, so they add up.
tier_surcharges_exclusive(amount, s, b) ==
    IF amount > 10000 THEN [b EXCEPT !.fraud = @ + s * 30]
    ELSE IF amount > 5000
         THEN [b EXCEPT !.immediate = @ - (s * 5 + 15),
                        !.retry = @ + (s * 5 + 30),
                        !.fraud = @ + s * 10]
    ELSE IF amount > 1000
         THEN [b EXCEPT !.deferred = @ + (s * 5 + 10), !.retry = @ + (s * 5 + 10)]
    ELSE b

tier_surcharges_retry_sign(amount, s, b) ==
    LET t1 == IF amount > 1000
              THEN [b EXCEPT !.deferred = @ + (s * 5 + 10), !.retry = @ + (s * 5 + 10)]
              ELSE b
        t2 == IF amount > 5000
              THEN [t1 EXCEPT !.immediate = @ - (s * 5 + 15),
                              !.retry = @ - (s * 5 + 30),
                              !.fraud = @ + s * 10]
              ELSE t1
    IN  IF amount > 10000 THEN [t2 EXCEPT !.fraud = @ + s * 30] ELSE t2

tier_surcharges(amount, s, b) ==
    LET t1 == IF amount > 1000
              THEN [b EXCEPT !.deferred = @ + (s * 5 + 10), !.retry = @ + (s * 5 + 10)]
              ELSE b
        t2 == IF amount > 5000
              THEN [t1 EXCEPT !.immediate = @ - (s * 5 + 15),
                              !.retry = @ + (s * 5 + 30),
                              !.fraud = @ + s * 10]
              ELSE t1
    IN  IF amount > 10000 THEN [t2 EXCEPT !.fraud = @ + s * 30] ELSE t2

\* max(0, .) on each of the four.
clamp(v) ==
    [immediate |-> Max(0, v.immediate), deferred |-> Max(0, v.deferred),
     retry |-> Max(0, v.retry), fraud |-> Max(0, v.fraud)]

\* create_weights up to the division: the clamped raw values and their total.
create_raw_total_first(amount, same_records) ==
    LET u == tier_surcharges(amount, same_records, base_weights(same_records))
        v == clamp(u)
    IN  [immediate |-> v.immediate, deferred |-> v.deferred, retry |-> v.retry,
         fraud |-> v.fraud,
         total |-> u.immediate + u.deferred + u.retry + u.fraud]

create_raw(amount, same_records) ==
    LET s == same_records
        v == clamp(tier_surcharges(amount, s, base_weights(s)))
    IN  [immediate |-> v.immediate, deferred |-> v.deferred, retry |-> v.retry,
         fraud |-> v.fraud,
         total |-> v.immediate + v.deferred + v.retry + v.fraud]

NoWeights == [immediate |-> Zero, deferred |-> Zero, retry |-> Zero, fraud |-> Zero]

\* The four divisions by total; a zero total raises ZeroDivisionError.
create_weights_rejecting(amount, same_records) ==
    LET r == create_raw(amount, same_records)
    IN  IF amount < 0
        THEN [status |-> "InvalidArgument", value |-> NoWeights]
        ELSE IF r.total = 0
        THEN [status |-> "ZeroDivisionError", value |-> NoWeights]
        ELSE [status |-> "ok",
              value |-> [immediate |-> Rat(r.immediate, r.total),
                         deferred  |-> Rat(r.deferred, r.total),
                         retry     |-> Rat(r.retry, r.total),
                         fraud     |-> Rat(r.fraud, r.total)]]

create_weights(amount, same_records) ==
    LET r == create_raw(amount, same_records)
    IN  IF r.total = 0
        THEN [status |-> "ZeroDivisionError", value |-> NoWeights]
        ELSE [status |-> "ok",
              value |-> [immediate |-> Rat(r.immediate, r.total),
                         deferred  |-> Rat(r.deferred, r.total),
                         retry     |-> Rat(r.retry, r.total),
                         fraud     |-> Rat(r.fraud, r.total)]]

CONFIRM_WEIGHTS ==
    [immediate |-> Rat(35, 100), deferred |-> Rat(30, 100),
     retry |-> Rat(30, 100), fraud |-> Rat(5, 100)]

DEFERRED_SUCCESS == Rat(80, 100)
DEFERRED_RETRY   == RMul(Rat(20, 100), Rat(95, 100))
DEFERRED_FRAUD   == RMul(Rat(20, 100), Rat(5, 100))

effective_attempt_fraud_lost(weights) ==
    [success |-> RAdd(weights.immediate, RMul(weights.deferred, DEFERRED_SUCCESS)),
     retry   |-> RAdd(weights.retry, RMul(weights.deferred, DEFERRED_RETRY)),
     fraud   |-> weights.fraud]

effective_attempt(weights) ==
    [success |-> RAdd(weights.immediate, RMul(weights.deferred, DEFERRED_SUCCESS)),
     retry   |-> RAdd(weights.retry, RMul(weights.deferred, DEFERRED_RETRY)),
     fraud   |-> RAdd(weights.fraud, RMul(weights.deferred, DEFERRED_FRAUD))]

\* The accumulators both aggregation loops start from.
create_locals_empty == [p_success |-> Zero, p_fraud |-> Zero, p_still_retrying |-> Zero]
create_locals == [p_success |-> Zero, p_fraud |-> Zero, p_still_retrying |-> One]
confirm_locals == [p_success |-> Zero, p_fraud |-> Zero, p_still_retrying |-> One]

\* One pass of the loop body of final_outcome_create, for the given attempt.
create_iteration_retry_first(q, a, i) ==
    LET r == create_weights(a, i)
        e == effective_attempt(r.value)
        still == RMul(q.p_still_retrying, e.retry)
    IN  IF r.status # "ok"
        THEN [status |-> r.status, value |-> q]
        ELSE [status |-> "ok",
              value |-> [p_success |-> RAdd(q.p_success, RMul(still, e.success)),
                         p_fraud |-> RAdd(q.p_fraud, RMul(still, e.fraud)),
                         p_still_retrying |-> still]]

create_iteration(p, amount, attempt) ==
    LET r == create_weights(amount, attempt)
        eff == effective_attempt(r.value)
    IN  IF r.status # "ok"
        THEN [status |-> r.status, value |-> p]
        ELSE [status |-> "ok",
              value |-> [p_success |-> RAdd(p.p_success, RMul(p.p_still_retrying, eff.success)),
                         p_fraud |-> RAdd(p.p_fraud, RMul(p.p_still_retrying, eff.fraud)),
                         p_still_retrying |-> RMul(p.p_still_retrying, eff.retry)]]

\* One pass of the loop body of final_outcome_confirm.
confirm_iteration(p, eff) ==
    [p_success |-> RAdd(p.p_success, RMul(p.p_still_retrying, eff.success)),
     p_fraud |-> RAdd(p.p_fraud, RMul(p.p_still_retrying, eff.fraud)),
     p_still_retrying |-> RMul(p.p_still_retrying, eff.retry)]

\* The dict both aggregation functions return.
phase_outcome(p) ==
    [success |-> p.p_success, fraud |-> p.p_fraud, retry_exhausted |-> p.p_still_retrying]

\* The arithmetic of end_to_end once c and k are known.
end_to_end_compose_unscaled(cc, kk) ==
    [success               |-> RMul(cc.success, kk.success),
     create_fraud          |-> cc.fraud,
     confirm_fraud         |-> RMul(cc.success, kk.fraud),
     create_retry_exhaust  |-> cc.retry_exhausted,
     confirm_retry_exhaust |-> kk.retry_exhausted]

end_to_end_compose(c, k) ==
    [success               |-> RMul(c.success, k.success),
     create_fraud          |-> c.fraud,
     confirm_fraud         |-> RMul(c.success, k.fraud),
     create_retry_exhaust  |-> c.retry_exhausted,
     confirm_retry_exhaust |-> RMul(c.success, k.retry_exhausted)]

\* max_retries: int = 3, the default end_to_end relies on.
DefaultMaxRetries == 3

PRICE_POINTS == {100, 500, 2000, 5000, 7500, 10000, 15000}

\* amount arguments: the report's price points, both sides of every tier
\* threshold, zero, and negative amounts.
Amounts == PRICE_POINTS \cup {-100, -1, 0, 1000, 1001, 5001, 10001}

NoRaw == [immediate |-> 0, deferred |-> 0, retry |-> 0, fraud |-> 0, total |-> 0]
NoOutcome == [success |-> Zero, fraud |-> Zero, retry_exhausted |-> Zero]
NoEndToEnd ==
    [success |-> Zero, create_fraud |-> Zero, confirm_fraud |-> Zero,
     create_retry_exhaust |-> Zero, confirm_retry_exhaust |-> Zero]

(***************************************************************************)
(* State: one call from the top level, followed through its loops.         *)
(*   pc           where the running call stands                            *)
(*   caller       "top", or "end_to_end" while it runs its two aggregators *)
(*   amount, same_records, max_retries   the arguments of the running call *)
(*   attempt      the next value the for loop takes from range(max_retries)*)
(*   p            the loop's locals p_success, p_fraud, p_still_retrying   *)
(*   eff          final_outcome_confirm's local eff                        *)
(*   raw, w       create_weights' clamped locals and its returned dict     *)
(*   ret          the dict the last aggregator returned                    *)
(*   c, k, e2e    end_to_end's locals and its returned dict                *)
(*   raised       the exception that ended the call, "none" otherwise      *)
(*   indices      history: the same_records values the loop has passed     *)
(***************************************************************************)
VARIABLES pc, caller, amount, same_records, max_retries, attempt, p, eff,
          raw, w, ret, c, k, e2e, raised, indices

vars == <<pc, caller, amount, same_records, max_retries, attempt, p, eff,
          raw, w, ret, c, k, e2e, raised, indices>>

Init ==
    /\ pc = "idle"
    /\ caller = "top"
    /\ amount = 0
    /\ same_records = 0
    /\ max_retries = 0
    /\ attempt = 0
    /\ p = create_locals
    /\ eff = [success |-> Zero, retry |-> Zero, fraud |-> Zero]
    /\ raw = NoRaw
    /\ w = NoWeights
    /\ ret = NoOutcome
    /\ c = NoOutcome
    /\ k = NoOutcome
    /\ e2e = NoEndToEnd
    /\ raised = "none"
    /\ indices = <<>>

\* create_weights(a, s) called from the top level.
CallCreateWeights ==
    /\ pc = "idle"
    /\ \E a \in Amounts, s \in 0..MaxS :
          LET r == create_weights(a, s)
          IN  /\ amount' = a
              /\ same_records' = s
              /\ raw' = create_raw(a, s)
              /\ w' = r.value
              /\ raised' = IF r.status = "ok" THEN "none" ELSE r.status
              /\ pc' = IF r.status = "ok" THEN "weights_returned" ELSE "raised"
    /\ UNCHANGED <<caller, max_retries, attempt, p, eff, ret, c, k, e2e, indices>>

\* Entry of final_outcome_create(a, m): the three accumulators are set.
EnterCreate(a, m) ==
    /\ amount' = a
    /\ max_retries' = m
    /\ attempt' = 0
    /\ p' = create_locals
    /\ indices' = <<>>
    /\ pc' = "create_loop"

\* final_outcome_create(a, m) called from the top level.
CallFinalOutcomeCreate ==
    /\ pc = "idle"
    /\ \E a \in Amounts, m \in 0..MaxRetries : EnterCreate(a, m)
    /\ caller' = "top"
    /\ UNCHANGED <<same_records, eff, raw, w, ret, c, k, e2e, raised>>

\* end_to_end(a) called from the top level: c = final_outcome_create(amount).
CallEndToEnd ==
    /\ pc = "idle"
    /\ \E a \in Amounts : EnterCreate(a, DefaultMaxRetries)
    /\ caller' = "end_to_end"
    /\ UNCHANGED <<same_records, eff, raw, w, ret, c, k, e2e, raised>>

\* One iteration of for attempt in range(max_retries) in final_outcome_create.
CreateLoopStep ==
    /\ pc = "create_loop"
    /\ attempt < max_retries
    /\ LET r == create_iteration(p, amount, attempt)
       IN  /\ p' = r.value
           /\ raised' = IF r.status = "ok" THEN "none" ELSE r.status
           /\ pc' = IF r.status = "ok" THEN "create_loop" ELSE "raised"
    /\ same_records' = attempt
    /\ raw' = create_raw(amount, attempt)
    /\ w' = create_weights(amount, attempt).value
    /\ indices' = Append(indices, attempt)
    /\ attempt' = attempt + 1
    /\ UNCHANGED <<caller, amount, max_retries, eff, ret, c, k, e2e>>

\* range(max_retries) is exhausted: final_outcome_create returns.
CreateReturn ==
    /\ pc = "create_loop"
    /\ attempt >= max_retries
    /\ ret' = phase_outcome(p)
    /\ IF caller = "end_to_end"
       THEN c' = phase_outcome(p) /\ pc' = "e2e_call_confirm"
       ELSE c' = c /\ pc' = "create_returned"
    /\ UNCHANGED <<caller, amount, same_records, max_retries, attempt, p, eff,
                   raw, w, k, e2e, raised, indices>>

\* Entry of final_outcome_confirm(m): eff is computed once, before the loop.
EnterConfirm(m) ==
    /\ max_retries' = m
    /\ attempt' = 0
    /\ eff' = effective_attempt(CONFIRM_WEIGHTS)
    /\ p' = confirm_locals
    /\ pc' = "confirm_loop"

\* final_outcome_confirm(m) called from the top level.
CallFinalOutcomeConfirm ==
    /\ pc = "idle"
    /\ \E m \in 0..MaxRetries : EnterConfirm(m)
    /\ caller' = "top"
    /\ UNCHANGED <<amount, same_records, raw, w, ret, c, k, e2e, raised, indices>>

\* end_to_end: k = final_outcome_confirm().
E2ECallConfirm ==
    /\ pc = "e2e_call_confirm"
    /\ EnterConfirm(DefaultMaxRetries)
    /\ UNCHANGED <<caller, amount, same_records, raw, w, ret, c, k, e2e, raised, indices>>

\* One iteration of for _ in range(max_retries) in final_outcome_confirm.
ConfirmLoopStep ==
    /\ pc = "confirm_loop"
    /\ attempt < max_retries
    /\ p' = confirm_iteration(p, eff)
    /\ attempt' = attempt + 1
    /\ UNCHANGED <<pc, caller, amount, same_records, max_retries, eff, raw, w,
                   ret, c, k, e2e, raised, indices>>

\* range(max_retries) is exhausted: final_outcome_confirm returns.
ConfirmReturn ==
    /\ pc = "confirm_loop"
    /\ attempt >= max_retries
    /\ ret' = phase_outcome(p)
    /\ IF caller = "end_to_end"
       THEN k' = phase_outcome(p) /\ pc' = "e2e_compose"
       ELSE k' = k /\ pc' = "confirm_returned"
    /\ UNCHANGED <<caller, amount, same_records, max_retries, attempt, p, eff,
                   raw, w, c, e2e, raised, indices>>

\* end_to_end: the five products and the returned dict.
E2ECompose ==
    /\ pc = "e2e_compose"
    /\ e2e' = end_to_end_compose(c, k)
    /\ pc' = "e2e_returned"
    /\ UNCHANGED <<caller, amount, same_records, max_retries, attempt, p, eff,
                   raw, w, ret, c, k, raised, indices>>

Next ==
    \/ CallCreateWeights
    \/ CallFinalOutcomeCreate
    \/ CallEndToEnd
    \/ CreateLoopStep
    \/ CreateReturn
    \/ CallFinalOutcomeConfirm
    \/ E2ECallConfirm
    \/ ConfirmLoopStep
    \/ ConfirmReturn
    \/ E2ECompose

Spec == Init /\ [][Next]_vars

(***************************************************************************)
(* Properties.                                                             *)
(***************************************************************************)
SumWeights(x) == RAdd(RAdd(RAdd(x.immediate, x.deferred), x.retry), x.fraud)
SumLocals(q) == RAdd(RAdd(q.p_success, q.p_fraud), q.p_still_retrying)
SumOutcome(o) == RAdd(RAdd(o.success, o.fraud), o.retry_exhausted)
SumEndToEnd(e) ==
    RAdd(RAdd(RAdd(RAdd(e.success, e.create_fraud), e.confirm_fraud),
              e.create_retry_exhaust), e.confirm_retry_exhaust)

\* x, cut after four decimal places, reads j / 10000.
Trunc4Is(x, j) == RLeq(Rat(j, 10000), x) /\ RLess(x, Rat(j + 1, 10000))

\* x, rounded to four decimal places, reads j / 10000.
Round4Is(x, j) == RLeq(Rat(2 * j - 1, 20000), x) /\ RLess(x, Rat(2 * j + 1, 20000))

\* create_weights, called from the top level, has finished (returned or raised).
WeightsCallEnded ==
    \/ pc = "weights_returned"
    \/ pc = "raised" /\ indices = <<>>

\* C1: for amount >= 0 and attempt_index >= 0 create_weights raises nothing,
\* the clamped total is > 0, the four clamped values are >= 0, each returned
\* value is the clamped value over the total, and the four returned values
\* sum to 1.
C1_WeightsAreDistribution ==
    (WeightsCallEnded /\ amount >= 0 /\ same_records >= 0) =>
        /\ pc = "weights_returned"
        /\ raised = "none"
        /\ raw.total > 0
        /\ raw.immediate >= 0 /\ raw.deferred >= 0 /\ raw.retry >= 0 /\ raw.fraud >= 0
        /\ raw.total = raw.immediate + raw.deferred + raw.retry + raw.fraud
        /\ BigMulSmall(w.immediate.d, raw.immediate) = BigMulSmall(w.immediate.n, raw.total)
        /\ BigMulSmall(w.deferred.d, raw.deferred) = BigMulSmall(w.deferred.n, raw.total)
        /\ BigMulSmall(w.retry.d, raw.retry) = BigMulSmall(w.retry.n, raw.total)
        /\ BigMulSmall(w.fraud.d, raw.fraud) = BigMulSmall(w.fraud.n, raw.total)
        /\ REq(SumWeights(w), One)

\* create_weights has returned for a high amount whose immediate weight was
\* clamped to 0.
C1_Witness ==
    /\ pc = "weights_returned"
    /\ amount > 5000
    /\ same_records >= 4
    /\ raw.immediate = 0
    /\ raw.fraud > 0

\* C2: for amount >= 0 and max_attempts >= 1, p_success + p_fraud +
\* p_still_retrying is 1 after every iteration of final_outcome_create's loop,
\* and the three returned values sum to 1.
C2_CreateOutcomeSumsToOne ==
    (amount >= 0 /\ max_retries >= 1) =>
        /\ pc = "create_loop" => REq(SumLocals(p), One)
        /\ pc \in {"create_returned", "e2e_call_confirm"} => REq(SumOutcome(ret), One)

\* final_outcome_create has returned after MaxRetries attempts, every one of
\* which left some mass in retry.
C2_Witness ==
    /\ pc = "create_returned"
    /\ amount > 10000
    /\ max_retries = MaxRetries
    /\ Len(indices) = MaxRetries
    /\ ~REq(ret.retry_exhausted, Zero)
    /\ ~REq(ret.fraud, Zero)

\* C3: for amount >= 0 the five values of end_to_end sum to 1, and success,
\* confirm_fraud and confirm_retry_exhaust together are the create phase's
\* success probability.
C3_EndToEndSumsToOne ==
    (pc = "e2e_returned" /\ amount >= 0) =>
        /\ REq(SumEndToEnd(e2e), One)
        /\ REq(RAdd(RAdd(e2e.success, e2e.confirm_fraud), e2e.confirm_retry_exhaust),
               c.success)
        /\ REq(SumOutcome(c), One)

\* end_to_end has returned for an amount in the second tier, with mass in
\* every one of the five outcomes.
C3_Witness ==
    /\ pc = "e2e_returned"
    /\ amount = 7500
    /\ ~REq(e2e.success, Zero)
    /\ ~REq(e2e.create_fraud, Zero)
    /\ ~REq(e2e.confirm_fraud, Zero)
    /\ ~REq(e2e.create_retry_exhaust, Zero)
    /\ ~REq(e2e.confirm_retry_exhaust, Zero)

\* C4 as stated: create_weights(7500, 0) has clamped raw values 50, 30, 50,
\* 10 with total 140 and returns 50/140, 30/140, 50/140, 10/140.
C4_Original ==
    (pc = "weights_returned" /\ amount = 7500 /\ same_records = 0) =>
        /\ raw = [immediate |-> 50, deferred |-> 30, retry |-> 50, fraud |-> 10,
                  total |-> 140]
        /\ REq(w.immediate, [n |-> ToBig(50), d |-> ToBig(140)])
        /\ REq(w.deferred, [n |-> ToBig(30), d |-> ToBig(140)])
        /\ REq(w.retry, [n |-> ToBig(50), d |-> ToBig(140)])
        /\ REq(w.fraud, [n |-> ToBig(10), d |-> ToBig(140)])

\* C4 amended: create_weights(7500, 0) has clamped raw values 50, 30, 50, 0
\* (the fraud surcharge of the 5000 tier is 10 * attempt_index, 0 here) with
\* total 130 and returns 50/130, 30/130, 50/130, 0.
C4_Scenario7500 ==
    (pc = "weights_returned" /\ amount = 7500 /\ same_records = 0) =>
        /\ raw = [immediate |-> 50, deferred |-> 30, retry |-> 50, fraud |-> 0,
                  total |-> 130]
        /\ REq(w.immediate, [n |-> ToBig(50), d |-> ToBig(130)])
        /\ REq(w.deferred, [n |-> ToBig(30), d |-> ToBig(130)])
        /\ REq(w.retry, [n |-> ToBig(50), d |-> ToBig(130)])
        /\ REq(w.fraud, Zero)

\* create_weights(7500, 0) has returned.
C4_Witness == pc = "weights_returned" /\ amount = 7500 /\ same_records = 0 /\ raw.total > 0

\* C5 as stated: create_weights(100, 0) has raw values 65, 20, 10, 0 with
\* total 95, and its returned values cut to four decimals are 0.6809, 0.2105,
\* 0.1053, 0.0.
C5_Original ==
    (pc = "weights_returned" /\ amount = 100 /\ same_records = 0) =>
        /\ raw = [immediate |-> 65, deferred |-> 20, retry |-> 10, fraud |-> 0,
                  total |-> 95]
        /\ Trunc4Is(w.immediate, 6809)
        /\ Trunc4Is(w.deferred, 2105)
        /\ Trunc4Is(w.retry, 1053)
        /\ Trunc4Is(w.fraud, 0)

\* C5 amended: create_weights(100, 0) has raw values 65, 20, 10, 0 with total
\* 95, and its returned values rounded to four decimals are 0.6842 (65/95),
\* 0.2105, 0.1053 and 0.0; cut to four decimals, 10/95 reads 0.1052.
C5_Scenario100 ==
    (pc = "weights_returned" /\ amount = 100 /\ same_records = 0) =>
        /\ raw = [immediate |-> 65, deferred |-> 20, retry |-> 10, fraud |-> 0,
                  total |-> 95]
        /\ Round4Is(w.immediate, 6842)
        /\ Round4Is(w.deferred, 2105)
        /\ Round4Is(w.retry, 1053)
        /\ Trunc4Is(w.retry, 1052)
        /\ REq(w.fraud, Zero)

\* create_weights(100, 0) has returned.
C5_Witness == pc = "weights_returned" /\ amount = 100 /\ same_records = 0 /\ raw.total = 95
\* C6: with max_attempts = 0, final_outcome_create (amount >= 0) and
\* final_outcome_confirm run no iteration, raise nothing and return exactly
\* success = 0, fraud = 0, retry_exhausted = 1.
C6_ZeroAttempts ==
    (max_retries = 0 /\ caller = "top") =>
        /\ (pc = "create_loop" /\ amount >= 0) => ENABLED CreateReturn /\ ~ENABLED CreateLoopStep
        /\ pc = "confirm_loop" => ENABLED ConfirmReturn /\ ~ENABLED ConfirmLoopStep
        /\ (pc = "create_returned" /\ amount >= 0) =>
              /\ ret = [success |-> Zero, fraud |-> Zero, retry_exhausted |-> One]
              /\ raised = "none"
              /\ indices = <<>>
        /\ pc = "confirm_returned" =>
              /\ ret = [success |-> Zero, fraud |-> Zero, retry_exhausted |-> One]
              /\ raised = "none"

\* final_outcome_create(amount, 0) has returned for a non-negative amount.
C6_Witness ==
    /\ pc = "create_returned"
    /\ caller = "top"
    /\ max_retries = 0
    /\ amount > 10000
    /\ REq(ret.retry_exhausted, One)

\* C7 as stated: for amount > 5000 and every attempt_index s >= 0, the clamped
\* immediate value at s + 1 is strictly below the one at s, and the raw fraud
\* value at s + 1 is strictly above the one at s.
C7_Original ==
    (pc = "weights_returned" /\ amount > 5000) =>
        /\ create_raw(amount, same_records + 1).immediate < raw.immediate
        /\ create_raw(amount, same_records + 1).fraud > raw.fraud

\* C7 amended: for amount > 5000 and every attempt_index s >= 0, the clamped
\* immediate value at s + 1 is strictly below the one at s while the one at s
\* is positive, and is 0 once the one at s is 0 (from s = 4 on); the raw fraud
\* value at s + 1 is strictly above the one at s.
C7_Monotone ==
    (pc = "weights_returned" /\ amount > 5000) =>
        /\ raw.immediate >= 0
        /\ raw.immediate > 0 => create_raw(amount, same_records + 1).immediate < raw.immediate
        /\ raw.immediate = 0 => create_raw(amount, same_records + 1).immediate = 0
        /\ raw.immediate = 0 <=> same_records >= 4
        /\ create_raw(amount, same_records + 1).fraud > raw.fraud

\* create_weights has returned for an amount above 5000 at an attempt index
\* whose successor is the first with immediate clamped to 0.
C7_Witness ==
    /\ pc = "weights_returned"
    /\ amount > 5000
    /\ raw.immediate > 0
    /\ create_raw(amount, same_records + 1).immediate = 0

\* A call made with a negative amount has ended.
NegativeCallEnded ==
    /\ amount < 0
    /\ pc \in {"weights_returned", "create_returned", "e2e_returned", "raised"}

\* C8 as stated: create_weights, final_outcome_create and end_to_end end a
\* call with a negative amount by an InvalidArgument error.
C8_Original == NegativeCallEnded => (pc = "raised" /\ raised = "InvalidArgument")

\* C8 amended: a negative amount is not rejected.  create_weights evaluates it
\* against the tier thresholds, where it falls below all three, and returns
\* the distribution of amount 0; final_outcome_create and end_to_end return
\* distributions that sum to 1.
C8_NegativeAmountEvaluated ==
    amount < 0 =>
        /\ pc # "raised"
        /\ raised = "none"
        /\ pc = "weights_returned" =>
              /\ raw = create_raw(0, same_records)
              /\ w = create_weights(0, same_records).value
              /\ REq(SumWeights(w), One)
        /\ pc = "create_returned" => REq(SumOutcome(ret), One)
        /\ pc = "e2e_returned" => REq(SumEndToEnd(e2e), One)

\* end_to_end has returned for a negative amount.
C8_Witness == pc = "e2e_returned" /\ amount < 0 /\ ~REq(e2e.success, Zero)

\* The chain Attempt_0 .. Attempt_{n-1} -> {Success, Fraud, Exhausted}:
\* attempt i leaves by the effective distribution of create_weights(a, i).
ChainStep(a, i) == effective_attempt(create_weights(a, i).value)

\* Absorption probabilities from Attempt_i, by the chain's backward equations.
RECURSIVE AbsorbSuccess(_, _, _)
AbsorbSuccess(a, n, i) ==
    IF i >= n THEN Zero
    ELSE RAdd(ChainStep(a, i).success,
              RMul(ChainStep(a, i).retry, AbsorbSuccess(a, n, i + 1)))

RECURSIVE AbsorbFraud(_, _, _)
AbsorbFraud(a, n, i) ==
    IF i >= n THEN Zero
    ELSE RAdd(ChainStep(a, i).fraud,
              RMul(ChainStep(a, i).retry, AbsorbFraud(a, n, i + 1)))

RECURSIVE AbsorbExhausted(_, _, _)
AbsorbExhausted(a, n, i) ==
    IF i >= n THEN One
    ELSE RMul(ChainStep(a, i).retry, AbsorbExhausted(a, n, i + 1))

\* The mass entering attempt i: the product of eff.retry over attempts 0..i-1.
RECURSIVE MassEntering(_, _)
MassEntering(a, i) ==
    IF i = 0 THEN One ELSE RMul(MassEntering(a, i - 1), ChainStep(a, i - 1).retry)

RECURSIVE SumSuccess(_, _)
SumSuccess(a, n) ==
    IF n = 0 THEN Zero
    ELSE RAdd(SumSuccess(a, n - 1), RMul(MassEntering(a, n - 1), ChainStep(a, n - 1).success))

RECURSIVE SumFraud(_, _)
SumFraud(a, n) ==
    IF n = 0 THEN Zero
    ELSE RAdd(SumFraud(a, n - 1), RMul(MassEntering(a, n - 1), ChainStep(a, n - 1).fraud))

\* C9: final_outcome_create(amount, n) returns the absorption probabilities of
\* the bounded retry chain.  The loop runs exactly n iterations with attempt
\* indices 0, 1, .., n-1 in order; the mass held before iteration i is the
\* product of eff.retry over attempts 0..i-1; success and fraud are the sums
\* over i of that mass times eff.success / eff.fraud of attempt i, and
\* retry_exhausted is the product of eff.retry over all n attempts.
C9_AbsorptionProbabilities ==
    /\ pc = "create_loop" =>
          /\ indices = [i \in 1..attempt |-> i - 1]
          /\ attempt <= max_retries
          /\ REq(p.p_still_retrying, MassEntering(amount, attempt))
    /\ pc \in {"create_returned", "e2e_call_confirm"} =>
          /\ indices = [i \in 1..max_retries |-> i - 1]
          /\ REq(ret.success, AbsorbSuccess(amount, max_retries, 0))
          /\ REq(ret.fraud, AbsorbFraud(amount, max_retries, 0))
          /\ REq(ret.retry_exhausted, AbsorbExhausted(amount, max_retries, 0))
          /\ REq(ret.success, SumSuccess(amount, max_retries))
          /\ REq(ret.fraud, SumFraud(amount, max_retries))
          /\ REq(ret.retry_exhausted, MassEntering(amount, max_retries))

\* final_outcome_create(7500, 3) has returned after attempts 0, 1, 2.
C9_Witness ==
    /\ pc = "create_returned"
    /\ amount = 7500
    /\ max_retries = 3
    /\ indices = <<0, 1, 2>>
    /\ ~REq(ret.retry_exhausted, Zero)

\* C10 as stated: for amount > 10000 the normalized fraud value approaches 1
\* as attempt_index grows, so it exceeds every threshold below 1 from some
\* index on; for the threshold 7/10, by the largest index explored.
C10_Original ==
    (pc = "weights_returned" /\ amount > 10000 /\ same_records = MaxS) =>
        RLess(Rat(7, 10), w.fraud)

\* C10 amended: for amount > 10000 the normalized fraud value grows strictly
\* with attempt_index and stays strictly below 11/16 = 0.6875 at every index;
\* it does not approach 1.
C10_FraudBelowElevenSixteenths ==
    (pc = "weights_returned" /\ amount > 10000) =>
        /\ RLess(w.fraud, Rat(11, 16))
        /\ RLess(w.fraud, create_weights(amount, same_records + 1).value.fraud)
        /\ RLess(create_weights(amount, same_records + 1).value.fraud, Rat(11, 16))

\* create_weights has returned for an amount above 10000 at the largest index
\* explored, with immediate clamped to 0 and more than half the mass on fraud.
C10_Witness ==
    /\ pc = "weights_returned"
    /\ amount > 10000
    /\ same_records = MaxS
    /\ raw.immediate = 0
    /\ RLess(Rat(1, 2), w.fraud)

====
